---- MODULE Spec2Model ----
(***************************************************************************)
(* Reminder microservice: the reminder entity and its recurrence math      *)
(* (src/src/models.rs), the reminder store (src/src/storage.rs) and the    *)
(* HTTP handlers and the background notification service                   *)
(* (src/src/main.rs).                                                      *)
(*                                                                         *)
(* Strings are sequences of one-character strings.  Timestamps and         *)
(* durations are whole minutes.  Option<T> is a record [some, v].          *)
(***************************************************************************)
EXTENDS Integers, Sequences, FiniteSets, TLC

VARIABLES
    reminders,      \* ReminderStorage.reminders: the Vec<Reminder> behind the RwLock
    disk,           \* contents of reminders.json
    now,            \* the wall clock read by Utc::now()
    scan_pc,        \* notification_service: "waiting" at interval.tick(), "processing" in the for loop
    due_reminders,  \* notification_service: the clones of the tick not yet processed
    lastOp,         \* the last operation that ran and what it returned
    probe,          \* a recurrence string, a due time and a clock reading
    result,         \* what the validation and the recurrence math return on probe
    rwlock,         \* the RwLock around the Vec: the guards that are out
    tasks           \* the tokio tasks calling the store: where each is in its call

vars == <<reminders, disk, now, scan_pc, due_reminders, lastOp, probe, result, rwlock, tasks>>

(***************************************************************************)
(* Bounds                                                                  *)
(***************************************************************************)
MaxReminders == 1      \* reminders the service accepts
MaxClockReadings == 2  \* the service's clock is read at 0, 12h, 36h, ...: MaxClockReadings readings after 0
MaxLoaded == 2         \* reminders in the reminders.json the service starts on
MaxStored == 2         \* reminders added to a store driven on its own
MaxTasks == 2          \* tasks calling the store at once: the notification service and request handlers
MaxConcurrent == 2     \* reminders created while the scanner is watched
MaxLocked == 1         \* reminders added when the calls are taken guard by guard
MaxStoreTime == 1      \* that store's clock runs over 0..MaxStoreTime
MaxProbeMinutes == 2   \* minute counts 0..MaxProbeMinutes (and 5, 60) in the probed strings
MaxProbeDue == 1       \* probed due times 0..MaxProbeDue
MaxProbeNow == 4       \* probed clock readings 0..MaxProbeNow, for every string
MaxProbeDays == 3      \* probed clock readings up to MaxProbeDays days, for hours and keywords
MaxProbeWeeks == 2     \* probed clock readings up to MaxProbeWeeks weeks, for keywords

(***************************************************************************)
(* Program constants                                                       *)
(***************************************************************************)
MinutesPerDay == 1440
MinutesPerWeek == 10080

HalfDay == MinutesPerDay \div 2

(***************************************************************************)
(* Option                                                                  *)
(***************************************************************************)
NoneStr == [some |-> FALSE, v |-> <<>>]
SomeStr(s) == [some |-> TRUE, v |-> s]
NoneTime == [some |-> FALSE, v |-> 0, panic |-> FALSE]
SomeTime(t) == [some |-> TRUE, v |-> t, panic |-> FALSE]
\* The call does not return: the thread panics.
Panicked == [some |-> FALSE, v |-> 0, panic |-> TRUE]

(***************************************************************************)
(* str: to_lowercase, ends_with, trim_end_matches, trim, parse::<i64>      *)
(***************************************************************************)
UpperLetters == <<"A","B","C","D","E","F","G","H","I","J","K","L","M",
                  "N","O","P","Q","R","S","T","U","V","W","X","Y","Z">>
LowerLetters == <<"a","b","c","d","e","f","g","h","i","j","k","l","m",
                  "n","o","p","q","r","s","t","u","v","w","x","y","z">>

LowerOf ==
    [c \in {UpperLetters[i] : i \in 1..26} |->
        LowerLetters[CHOOSE i \in 1..26 : UpperLetters[i] = c]]

ToLowerChar(c) == IF c \in DOMAIN LowerOf THEN LowerOf[c] ELSE c

ToLowercase(s) == [i \in 1..Len(s) |-> ToLowerChar(s[i])]

EndsWith(s, p) ==
    /\ Len(p) <= Len(s)
    /\ SubSeq(s, Len(s) - Len(p) + 1, Len(s)) = p

RECURSIVE TrimEndMatches(_, _)
TrimEndMatches(s, p) ==
    IF p # <<>> /\ EndsWith(s, p)
    THEN TrimEndMatches(SubSeq(s, 1, Len(s) - Len(p)), p)
    ELSE s

IsWhitespace(c) == c \in {" ", "\t", "\n", "\r"}

RECURSIVE TrimStart(_)
TrimStart(s) ==
    IF s # <<>> /\ IsWhitespace(Head(s)) THEN TrimStart(Tail(s)) ELSE s

RECURSIVE TrimEnd(_)
TrimEnd(s) ==
    IF s # <<>> /\ IsWhitespace(s[Len(s)])
    THEN TrimEnd(SubSeq(s, 1, Len(s) - 1))
    ELSE s

Trim(s) == TrimEnd(TrimStart(s))

Digits == <<"0","1","2","3","4","5","6","7","8","9">>
DigitOf == [c \in {Digits[i] : i \in 1..10} |-> (CHOOSE i \in 1..10 : Digits[i] = c) - 1]
IsDigit(c) == c \in DOMAIN DigitOf
DigitVal(c) == DigitOf[c]

RECURSIVE DigitsVal(_)
DigitsVal(s) ==
    IF s = <<>> THEN 0
    ELSE DigitsVal(SubSeq(s, 1, Len(s) - 1)) * 10 + DigitVal(s[Len(s)])

RECURSIVE ToDigits(_)
ToDigits(n) ==
    IF n < 10 THEN <<Digits[n + 1]>>
    ELSE ToDigits(n \div 10) \o <<Digits[(n % 10) + 1]>>

\* Numbers of ten digits and more are kept as their decimal digits, without
\* leading zeros, and compared and added digit by digit.
RECURSIVE StripZeros(_)
StripZeros(s) ==
    IF Len(s) > 1 /\ Head(s) = "0" THEN StripZeros(Tail(s)) ELSE s

BigLess(a, b) ==
    \/ Len(a) < Len(b)
    \/ /\ Len(a) = Len(b)
       /\ \E i \in 1..Len(a) :
            /\ \A j \in 1..(i - 1) : a[j] = b[j]
            /\ DigitVal(a[i]) < DigitVal(b[i])

RECURSIVE BigAddCarry(_, _, _)
BigAddCarry(a, b, carry) ==
    IF a = <<>> /\ b = <<>> THEN (IF carry = 0 THEN <<>> ELSE <<Digits[carry + 1]>>)
    ELSE LET x == IF a = <<>> THEN 0 ELSE DigitVal(a[Len(a)])
             y == IF b = <<>> THEN 0 ELSE DigitVal(b[Len(b)])
             sum == x + y + carry
             rest_a == IF a = <<>> THEN <<>> ELSE SubSeq(a, 1, Len(a) - 1)
             rest_b == IF b = <<>> THEN <<>> ELSE SubSeq(b, 1, Len(b) - 1)
         IN  BigAddCarry(rest_a, rest_b, sum \div 10) \o <<Digits[(sum % 10) + 1]>>

BigAdd(a, b) == StripZeros(BigAddCarry(a, b, 0))

\* i64::MAX and the magnitude of i64::MIN.
I64MaxDigits ==
    <<"9","2","2","3","3","7","2","0","3","6","8","5","4","7","7","5","8","0","7">>
I64MinDigits ==
    <<"9","2","2","3","3","7","2","0","3","6","8","5","4","7","7","5","8","0","8">>

\* The largest number of digits whose value `val` holds exactly.
SmallDigits == 9
Saturated == 1000000000

\* str::parse::<i64>: an optional sign, then one or more ASCII digits and
\* nothing else (no whitespace); a number outside the i64 range is an error.
\* `digits` is the magnitude; `val` is the value where the magnitude has at
\* most SmallDigits digits and is saturated at +-Saturated beyond (`big`).
ParseI64(s) ==
    LET signed == s # <<>> /\ Head(s) \in {"+", "-"}
        body   == IF signed THEN Tail(s) ELSE s
        neg    == signed /\ Head(s) = "-"
        failed == [ok |-> FALSE, val |-> 0, big |-> FALSE, digits |-> <<"0">>]
    IN  IF body = <<>> \/ \E i \in 1..Len(body) : ~IsDigit(body[i])
        THEN failed
        ELSE LET magnitude == StripZeros(body)
             IN  IF BigLess(IF neg THEN I64MinDigits ELSE I64MaxDigits, magnitude)
                 THEN failed
                 ELSE IF Len(magnitude) > SmallDigits
                 THEN [ok |-> TRUE, val |-> IF neg THEN 0 - Saturated ELSE Saturated,
                       big |-> TRUE, digits |-> magnitude]
                 ELSE [ok |-> TRUE,
                       val |-> IF neg THEN 0 - DigitsVal(magnitude)
                               ELSE DigitsVal(magnitude),
                       big |-> FALSE, digits |-> magnitude]

StrDaily == <<"d","a","i","l","y">>
StrWeekly == <<"w","e","e","k","l","y">>
StrMinutes == <<"m","i","n","u","t","e","s">>

(***************************************************************************)
(* models.rs                                                               *)
(***************************************************************************)
\* Reminder::new: sent starts false, created_at is Utc::now().
NewReminder(id, message, due_time, username, recurrence, now_) ==
    [id |-> id, message |-> message, due_time |-> due_time,
     username |-> username, sent |-> FALSE, created_at |-> now_,
     recurrence |-> recurrence]

\* Faulty variant: only the keywords are matched, a minute count falls to `_ => None`.
RecurrenceIntervalKeywordsOnly(recurrence) ==
    LET custom == ToLowercase(recurrence)
    IN  IF custom = StrDaily THEN SomeTime(MinutesPerDay)
        ELSE IF custom = StrWeekly THEN SomeTime(MinutesPerWeek)
        ELSE NoneTime

\* Faulty variant: the match is made on the recurrence as given, not lowercased.
RecurrenceIntervalCaseSensitive(recurrence) ==
    LET custom == recurrence
    IN  IF custom = StrDaily THEN SomeTime(MinutesPerDay)
        ELSE IF custom = StrWeekly THEN SomeTime(MinutesPerWeek)
        ELSE IF EndsWith(custom, StrMinutes) \/ ParseI64(custom).ok
        THEN LET minutes == IF EndsWith(custom, StrMinutes)
                            THEN ParseI64(Trim(TrimEndMatches(custom, StrMinutes)))
                            ELSE ParseI64(custom)
             IN  IF ~minutes.ok THEN NoneTime
                 ELSE IF minutes.val <= 0 THEN NoneTime
                 ELSE SomeTime(minutes.val)
        ELSE NoneTime

\* The match of calculate_next_occurrence on recurrence.to_lowercase(): the
\* interval in minutes, or none where the function returns None.
RecurrenceInterval(recurrence) ==
    LET custom == ToLowercase(recurrence)
    IN  IF custom = StrDaily THEN SomeTime(MinutesPerDay)
        ELSE IF custom = StrWeekly THEN SomeTime(MinutesPerWeek)
        ELSE IF EndsWith(custom, StrMinutes) \/ ParseI64(custom).ok
        THEN LET minutes == IF EndsWith(custom, StrMinutes)
                            THEN ParseI64(Trim(TrimEndMatches(custom, StrMinutes)))
                            ELSE ParseI64(custom)
             IN  IF ~minutes.ok THEN NoneTime
                 ELSE IF minutes.val <= 0 THEN NoneTime
                 ELSE SomeTime(minutes.val)
        ELSE NoneTime

\* Faulty variant: a missed occurrence restarts the series from now.
NextTimeLoopFromNow(next_time, interval, now_) ==
    IF next_time <= now_ THEN now_ + interval ELSE next_time

\* Faulty variant: the interval is added once, with no loop.
NextTimeLoopOnce(next_time, interval, now_) == next_time

\* Faulty variant: the loop stops at next_time == now.
RECURSIVE NextTimeLoopUntilNow(_, _, _)
NextTimeLoopUntilNow(next_time, interval, now_) ==
    IF next_time < now_
    THEN NextTimeLoopUntilNow(next_time + interval, interval, now_)
    ELSE next_time

\* while next_time <= now { next_time = next_time + interval }
RECURSIVE NextTimeLoop(_, _, _)
NextTimeLoop(next_time, interval, now_) ==
    IF next_time <= now_
    THEN NextTimeLoop(next_time + interval, interval, now_)
    ELSE next_time

\* The minute count the match parses, as ParseI64 gives it.
MinutesOf(recurrence) ==
    LET custom == ToLowercase(recurrence)
    IN  IF EndsWith(custom, StrMinutes)
        THEN ParseI64(Trim(TrimEndMatches(custom, StrMinutes)))
        ELSE ParseI64(custom)

\* Duration::minutes(minutes) panics when the minutes are more than a
\* Duration holds: i64::MAX milliseconds.
MaxDurationMinutes ==
    <<"1","5","3","7","2","2","8","6","7","2","8","0","9","1","2">>
DurationMinutesPanics(minutes) == minutes.big /\ BigLess(MaxDurationMinutes, minutes.digits)

\* self.due_time + interval panics when the sum is after the last instant
\* of DateTime<Utc>, +262142-12-31T23:59:59.999999999Z.  Instants are
\* minutes since 1970-01-01T00:00:00Z and the due times of this model are
\* not before it.
MaxUtcMinutes == <<"1","3","6","8","3","7","7","8","1","2","7","9">>
AddPanics(due_time, minutes) ==
    minutes.big /\ BigLess(MaxUtcMinutes, BigAdd(ToDigits(due_time), minutes.digits))

CalculateNextOccurrence(reminder, now_) ==
    IF ~reminder.recurrence.some THEN NoneTime
    ELSE LET interval == RecurrenceInterval(reminder.recurrence.v)
             minutes == MinutesOf(reminder.recurrence.v)
         IN  IF ~interval.some THEN NoneTime
             ELSE IF DurationMinutesPanics(minutes) THEN Panicked
             ELSE IF AddPanics(reminder.due_time, minutes) THEN Panicked
             ELSE IF minutes.big
             THEN SomeTime(BigAdd(ToDigits(reminder.due_time), minutes.digits))
             ELSE SomeTime(NextTimeLoop(reminder.due_time + interval.v,
                                        interval.v, now_))

(***************************************************************************)
(* main.rs: create_reminder's validation                                   *)
(***************************************************************************)
\* payload.due_time.parse::<DateTime<Utc>>(): a request's due_time is either
\* a well-formed RFC 3339 timestamp, which parses to its instant, or not.
ParseDueTime(due_time) ==
    IF due_time.wellformed THEN [ok |-> TRUE, val |-> due_time.instant]
    ELSE [ok |-> FALSE, val |-> 0]

\* Faulty variant: the "minutes" branch accepts any integer, positive or not.
ValidateRecurrenceAnySign(recurrence) ==
    IF ~recurrence.some THEN "ok"
    ELSE LET recurrence_lower == ToLowercase(recurrence.v)
             bare == ParseI64(recurrence.v)
         IN  IF recurrence_lower \in {StrDaily, StrWeekly} THEN "ok"
             ELSE IF bare.ok
             THEN IF bare.val <= 0 THEN "not_positive" ELSE "ok"
             ELSE IF EndsWith(recurrence_lower, StrMinutes)
             THEN LET minutes == ParseI64(Trim(TrimEndMatches(recurrence.v, StrMinutes)))
                  IN  IF minutes.ok THEN "ok" ELSE "invalid_format"
             ELSE "invalid_format"

\* "ok", or the BAD_REQUEST the recurrence check returns.
ValidateRecurrence(recurrence) ==
    IF ~recurrence.some THEN "ok"
    ELSE LET recurrence_lower == ToLowercase(recurrence.v)
             bare == ParseI64(recurrence.v)
         IN  IF recurrence_lower \in {StrDaily, StrWeekly} THEN "ok"
             ELSE IF bare.ok
             THEN IF bare.val <= 0 THEN "not_positive" ELSE "ok"
             ELSE IF EndsWith(recurrence_lower, StrMinutes)
             THEN LET minutes == ParseI64(Trim(TrimEndMatches(recurrence.v, StrMinutes)))
                  IN  IF minutes.ok /\ minutes.val > 0 THEN "ok"
                      ELSE IF minutes.ok THEN "not_positive"
                      ELSE "invalid_format"
             ELSE "invalid_format"

\* The checks of create_reminder in their order: "ok" or the first failure.
ValidateRequest(payload) ==
    IF ~ParseDueTime(payload.due_time).ok THEN "invalid_date"
    ELSE IF Trim(payload.message) = <<>> THEN "empty_message"
    ELSE ValidateRecurrence(payload.recurrence)

(***************************************************************************)
(* storage.rs                                                              *)
(***************************************************************************)
\* serde's form of a DateTime<Utc>: the RFC 3339 text, here its day, hour
\* and minute fields.
ToRfc3339(t) == <<t \div MinutesPerDay, (t % MinutesPerDay) \div 60, t % 60>>
ParseRfc3339(s) == s[1] * MinutesPerDay + s[2] * 60 + s[3]

\* serde's form of an Option<String>: null or the string.
OptionToJson(o) ==
    IF o.some THEN [t |-> "string", s |-> o.v] ELSE [t |-> "null", s |-> <<>>]
OptionFromJson(j) == IF j.t = "null" THEN NoneStr ELSE SomeStr(j.s)

\* serde_json::to_string_pretty(reminders): every field of every reminder,
\* in the order of the Vec.
ToJson(rs) ==
    [i \in 1..Len(rs) |->
        [id |-> rs[i].id, message |-> rs[i].message,
         due_time |-> ToRfc3339(rs[i].due_time),
         username |-> OptionToJson(rs[i].username), sent |-> rs[i].sent,
         created_at |-> ToRfc3339(rs[i].created_at),
         recurrence |-> OptionToJson(rs[i].recurrence)]]

\* Faulty variant: the sent flag is not read back, every reminder loads unsent.
FromJsonSentDefaulted(data) ==
    [i \in 1..Len(data) |->
        [id |-> data[i].id, message |-> data[i].message,
         due_time |-> ParseRfc3339(data[i].due_time),
         username |-> OptionFromJson(data[i].username), sent |-> FALSE,
         created_at |-> ParseRfc3339(data[i].created_at),
         recurrence |-> OptionFromJson(data[i].recurrence)]]

\* serde_json::from_str(&data): the Vec<Reminder> of a well-formed file.
FromJson(data) ==
    [i \in 1..Len(data) |->
        [id |-> data[i].id, message |-> data[i].message,
         due_time |-> ParseRfc3339(data[i].due_time),
         username |-> OptionFromJson(data[i].username), sent |-> data[i].sent,
         created_at |-> ParseRfc3339(data[i].created_at),
         recurrence |-> OptionFromJson(data[i].recurrence)]]

\* Faulty variant: the store starts empty whatever the file holds.
LoadFromDiskIgnored(file) == <<>>

\* ReminderStorage::new: the reminders of reminders.json, or none when there
\* is no such file.
LoadFromDisk(file) == IF file.exists THEN FromJson(file.data) ELSE <<>>

\* Faulty variant: the snapshot leaves out the reminders already sent.
SaveToDiskDropsSent(rs, write_ok, old_disk) ==
    IF write_ok
    THEN [exists |-> TRUE, data |-> ToJson(SelectSeq(rs, LAMBDA r : ~r.sent))]
    ELSE old_disk

\* save_to_disk: the file is overwritten, or the write fails and it is kept.
SaveToDisk(rs, write_ok, old_disk) ==
    IF write_ok THEN [exists |-> TRUE, data |-> ToJson(rs)] ELSE old_disk

\* Faulty variant: the new reminder is put in front of the others.
AddReminderAtFront(rs, reminder) == <<reminder>> \o rs

\* reminders.push(reminder.clone())
AddReminder(rs, reminder) == Append(rs, reminder)

\* upcoming.sort_by(|a, b| a.due_time.cmp(&b.due_time)): a stable sort.
RECURSIVE InsertByDueTime(_, _)
InsertByDueTime(sorted, r) ==
    IF sorted = <<>> THEN <<r>>
    ELSE IF sorted[Len(sorted)].due_time <= r.due_time THEN Append(sorted, r)
    ELSE Append(InsertByDueTime(SubSeq(sorted, 1, Len(sorted) - 1), r),
                sorted[Len(sorted)])

RECURSIVE SortByDueTime(_)
SortByDueTime(rs) ==
    IF rs = <<>> THEN <<>>
    ELSE InsertByDueTime(SortByDueTime(SubSeq(rs, 1, Len(rs) - 1)), rs[Len(rs)])

\* Faulty variant: a reminder due exactly now counts as upcoming.
IsUpcomingOrNow(r, now_) == ~r.sent /\ r.due_time >= now_
IsUpcoming(r, now_) == ~r.sent /\ r.due_time > now_
\* Faulty variant: the filter of get_due_reminders does not look at sent.
IsDueIgnoringSent(r, now_) == r.due_time <= now_

\* Faulty variant: a reminder due exactly now is not yet due.
IsDueBefore(r, now_) == ~r.sent /\ r.due_time < now_
IsDue(r, now_) == ~r.sent /\ r.due_time <= now_

GetUpcomingReminders(rs, now_) ==
    SortByDueTime(SelectSeq(rs, LAMBDA r : IsUpcoming(r, now_)))

GetDueReminders(rs, now_) == SelectSeq(rs, LAMBDA r : IsDue(r, now_))

\* reminders.iter_mut().find(|r| r.id == id): the first match, or 0.
FindIndex(rs, id) ==
    IF \E i \in 1..Len(rs) : rs[i].id = id
    THEN CHOOSE i \in 1..Len(rs) :
            /\ rs[i].id = id
            /\ \A j \in 1..(i - 1) : rs[j].id # id
    ELSE 0

\* Faulty variant: the flag is never set.
MarkAsSentNoop(rs, id) == rs

\* Faulty variant: the flag is flipped instead of set.
MarkAsSentToggles(rs, id) ==
    LET i == FindIndex(rs, id)
    IN  IF i = 0 THEN rs ELSE [rs EXCEPT ![i].sent = ~rs[i].sent]

MarkAsSent(rs, id) ==
    LET i == FindIndex(rs, id)
    IN  IF i = 0 THEN rs ELSE [rs EXCEPT ![i].sent = TRUE]

\* Faulty variant: an id that is not stored is given a reminder of its own.
RescheduleReminderUpserts(rs, id, next_due_time) ==
    LET i == FindIndex(rs, id)
    IN  IF i = 0
        THEN Append(rs, NewReminder(id, <<>>, next_due_time, NoneStr, NoneStr, 0))
        ELSE [rs EXCEPT ![i].due_time = next_due_time, ![i].sent = FALSE]

\* Faulty variant: the rescheduled reminder is stamped anew.
RescheduleReminderRestamps(rs, id, next_due_time) ==
    LET i == FindIndex(rs, id)
    IN  IF i = 0 THEN rs
        ELSE [rs EXCEPT ![i].due_time = next_due_time, ![i].sent = FALSE,
                        ![i].created_at = next_due_time]

RescheduleReminder(rs, id, next_due_time) ==
    LET i == FindIndex(rs, id)
    IN  IF i = 0 THEN rs
        ELSE [rs EXCEPT ![i].due_time = next_due_time, ![i].sent = FALSE]

GetAllReminders(rs) == rs

(***************************************************************************)
(* The requests and clock readings of the model                            *)
(***************************************************************************)
Str60Minutes == <<"6","0">> \o StrMinutes
Str5UpperMinutes == <<"5"," ","M","I","N","U","T","E","S">>

Instants == {0} \cup {(2 * h - 1) * HalfDay : h \in 1..MaxClockReadings}
DueInstants == {0, HalfDay}

Messages == {<<"h","i">>, <<" ">>}
DueTimeInputs ==
    {[wellformed |-> TRUE, instant |-> t] : t \in DueInstants}
        \cup {[wellformed |-> FALSE, instant |-> 0]}
Usernames == {NoneStr}
Recurrences ==
    {NoneStr, SomeStr(StrDaily), SomeStr(Str60Minutes), SomeStr(<<"0">>),
     SomeStr(Str5UpperMinutes)}

\* The requests that pass every check, and requests with one defect each.
ValidPayloads ==
    [message : {<<"h","i">>},
     due_time : {[wellformed |-> TRUE, instant |-> t] : t \in DueInstants},
     username : Usernames,
     recurrence : {NoneStr, SomeStr(StrDaily), SomeStr(Str60Minutes)}]
SomeValidPayload ==
    [message |-> <<"h","i">>, due_time |-> [wellformed |-> TRUE, instant |-> 0],
     username |-> NoneStr, recurrence |-> SomeStr(StrDaily)]
DefectivePayloads ==
    {[SomeValidPayload EXCEPT !.message = m] : m \in Messages \ {<<"h","i">>}}
        \cup {[SomeValidPayload EXCEPT !.due_time = d] :
                    d \in {x \in DueTimeInputs : ~x.wellformed}}
        \cup {[SomeValidPayload EXCEPT !.recurrence = r] :
                    r \in Recurrences \ {NoneStr, SomeStr(StrDaily), SomeStr(Str60Minutes)}}
Payloads == ValidPayloads \cup DefectivePayloads

NoFile == [exists |-> FALSE, data |-> <<>>]
Op(op, status, id, wrote, resp) ==
    [op |-> op, status |-> status, id |-> id, wrote |-> wrote, resp |-> resp]

\* RwLock::new(reminders): no guard is out.  Every task is outside the store.
NoGuards == [writer |-> 0, readers |-> {}]
IdleTask == [pc |-> "idle", op |-> "none", id |-> 0, t |-> 0, ret |-> "none"]
IdleTasks == [k \in 1..MaxTasks |-> IdleTask]

IdleProbe == [recurrence |-> NoneStr, due_time |-> 0, now |-> 0]
IdleResult == [validated |-> "pending", calculated |-> FALSE, next |-> NoneTime]

(***************************************************************************)
(* main.rs: the handlers and the notification service                      *)
(***************************************************************************)
\* Faulty variant: every reminder gets the same id.
NewIdFixed(rs) == 1

\* Uuid::new_v4(): an id no stored reminder has.
NewId(rs) == Len(rs) + 1

\* Faulty variant: the reminder is built and added before the checks are made.
CreateReminderStoresFirst(payload, write_ok) ==
    /\ Len(reminders) < MaxReminders
    /\ LET verdict == ValidateRequest(payload)
           reminder == NewReminder(NewId(reminders), payload.message,
                                   ParseDueTime(payload.due_time).val,
                                   payload.username, payload.recurrence, now)
       IN  /\ reminders' = AddReminder(reminders, reminder)
           /\ disk' = SaveToDisk(reminders', write_ok, disk)
           /\ lastOp' = IF verdict # "ok"
                         THEN Op("create", "BAD_REQUEST", 0, FALSE, <<>>)
                         ELSE Op("create",
                                 IF write_ok THEN "CREATED" ELSE "INTERNAL_SERVER_ERROR",
                                 reminder.id, write_ok, <<>>)
    /\ UNCHANGED <<now, scan_pc, due_reminders, probe, result, rwlock, tasks>>

\* Faulty variant: a failed save takes the pushed reminder out again.
CreateReminderRollsBack(payload, write_ok) ==
    /\ LET verdict == ValidateRequest(payload)
           reminder == NewReminder(NewId(reminders), payload.message,
                                   ParseDueTime(payload.due_time).val,
                                   payload.username, payload.recurrence, now)
       IN  IF verdict # "ok"
           THEN /\ lastOp' = Op("create", "BAD_REQUEST", 0, FALSE, <<>>)
                /\ UNCHANGED <<reminders, disk>>
           ELSE /\ Len(reminders) < MaxReminders
                /\ reminders' = IF write_ok THEN AddReminder(reminders, reminder)
                                ELSE reminders
                /\ disk' = SaveToDisk(reminders', write_ok, disk)
                /\ lastOp' = Op("create",
                                IF write_ok THEN "CREATED" ELSE "INTERNAL_SERVER_ERROR",
                                reminder.id, write_ok, <<>>)
    /\ UNCHANGED <<now, scan_pc, due_reminders, probe, result, rwlock, tasks>>

\* POST /reminders.  A request that fails a check returns before
\* Reminder::new and add_reminder; add_reminder pushes and then saves.
CreateReminderUpTo(capacity, payload, write_ok) ==
    /\ LET verdict == ValidateRequest(payload)
           reminder == NewReminder(NewId(reminders), payload.message,
                                   ParseDueTime(payload.due_time).val,
                                   payload.username, payload.recurrence, now)
       IN  IF verdict # "ok"
           THEN /\ lastOp' = Op("create", "BAD_REQUEST", 0, FALSE, <<>>)
                /\ UNCHANGED <<reminders, disk>>
           ELSE /\ Len(reminders) < capacity
                /\ reminders' = AddReminder(reminders, reminder)
                /\ disk' = SaveToDisk(reminders', write_ok, disk)
                /\ lastOp' = Op("create",
                                IF write_ok THEN "CREATED" ELSE "INTERNAL_SERVER_ERROR",
                                reminder.id, write_ok, <<>>)
    /\ UNCHANGED <<now, scan_pc, due_reminders, probe, result, rwlock, tasks>>

CreateReminder(payload, write_ok) == CreateReminderUpTo(MaxReminders, payload, write_ok)

\* GET /reminders
GetReminders ==
    /\ lastOp' = Op("list", "OK", 0, FALSE, GetUpcomingReminders(reminders, now))
    /\ UNCHANGED <<reminders, disk, now, scan_pc, due_reminders, probe, result, rwlock, tasks>>

\* notification_service: interval.tick() returns and get_due_reminders runs.
ScannerTick ==
    /\ scan_pc = "waiting"
    /\ due_reminders' = GetDueReminders(reminders, now)
    /\ scan_pc' = IF due_reminders' = <<>> THEN "waiting" ELSE "processing"
    /\ lastOp' = Op("tick", "", 0, FALSE, <<>>)
    /\ UNCHANGED <<reminders, disk, now, probe, result, rwlock, tasks>>

\* Faulty variant: a failed reschedule or mark_as_sent ends the tick.
ScannerProcessAbortsOnError(write_ok) ==
    /\ scan_pc = "processing"
    /\ due_reminders # <<>>
    /\ LET reminder == Head(due_reminders)
           next_time == CalculateNextOccurrence(reminder, now)
           found == FindIndex(reminders, reminder.id) # 0
           saved == found /\ write_ok
       IN  /\ reminders' = IF next_time.some
                           THEN RescheduleReminder(reminders, reminder.id, next_time.v)
                           ELSE MarkAsSent(reminders, reminder.id)
           /\ disk' = IF found THEN SaveToDisk(reminders', write_ok, disk) ELSE disk
           /\ lastOp' = Op("deliver", IF found /\ ~write_ok THEN "Err" ELSE "Ok",
                           reminder.id, saved, <<>>)
           /\ due_reminders' = IF found /\ ~write_ok THEN <<>> ELSE Tail(due_reminders)
    /\ scan_pc' = IF due_reminders' = <<>> THEN "waiting" ELSE "processing"
    /\ UNCHANGED <<now, probe, result, rwlock, tasks>>

\* Faulty variant: a recurrence with no computable interval is left as it is,
\* neither rescheduled nor marked as sent.
ScannerProcessSkipsInvalid(write_ok) ==
    /\ scan_pc = "processing"
    /\ due_reminders # <<>>
    /\ LET reminder == Head(due_reminders)
           next_time == CalculateNextOccurrence(reminder, now)
           skip == reminder.recurrence.some /\ ~next_time.some
           found == ~skip /\ FindIndex(reminders, reminder.id) # 0
           saved == found /\ write_ok
       IN  /\ reminders' = IF skip THEN reminders
                           ELSE IF next_time.some
                           THEN RescheduleReminder(reminders, reminder.id, next_time.v)
                           ELSE MarkAsSent(reminders, reminder.id)
           /\ disk' = IF found THEN SaveToDisk(reminders', write_ok, disk) ELSE disk
           /\ lastOp' = Op("deliver", IF found /\ ~write_ok THEN "Err" ELSE "Ok",
                           reminder.id, saved, <<>>)
    /\ due_reminders' = Tail(due_reminders)
    /\ scan_pc' = IF due_reminders' = <<>> THEN "waiting" ELSE "processing"
    /\ UNCHANGED <<now, probe, result, rwlock, tasks>>

\* Faulty variant: the step marks or reschedules whatever is due in memory
\* by now, not only the reminder it has taken from its list.
ScannerProcessSweepsDue(write_ok) ==
    /\ scan_pc = "processing"
    /\ due_reminders # <<>>
    /\ LET reminder == Head(due_reminders)
           found == FindIndex(reminders, reminder.id) # 0
           saved == found /\ write_ok
       IN  /\ reminders' =
                [i \in 1..Len(reminders) |->
                    IF ~IsDue(reminders[i], now) THEN reminders[i]
                    ELSE LET next_time == CalculateNextOccurrence(reminders[i], now)
                         IN  IF next_time.some
                             THEN [reminders[i] EXCEPT !.due_time = next_time.v,
                                                       !.sent = FALSE]
                             ELSE [reminders[i] EXCEPT !.sent = TRUE]]
           /\ disk' = IF found THEN SaveToDisk(reminders', write_ok, disk) ELSE disk
           /\ lastOp' = Op("deliver", IF found /\ ~write_ok THEN "Err" ELSE "Ok",
                           reminder.id, saved, <<>>)
    /\ due_reminders' = Tail(due_reminders)
    /\ scan_pc' = IF due_reminders' = <<>> THEN "waiting" ELSE "processing"
    /\ UNCHANGED <<now, probe, result, rwlock, tasks>>

\* Faulty variant: a failed save undoes the change made in memory.
ScannerProcessRollsBack(write_ok) ==
    /\ scan_pc = "processing"
    /\ due_reminders # <<>>
    /\ LET reminder == Head(due_reminders)
           next_time == CalculateNextOccurrence(reminder, now)
           found == FindIndex(reminders, reminder.id) # 0
           saved == found /\ write_ok
       IN  /\ reminders' = IF found /\ ~write_ok THEN reminders
                           ELSE IF next_time.some
                           THEN RescheduleReminder(reminders, reminder.id, next_time.v)
                           ELSE MarkAsSent(reminders, reminder.id)
           /\ disk' = IF found THEN SaveToDisk(reminders', write_ok, disk) ELSE disk
           /\ lastOp' = Op("deliver", IF found /\ ~write_ok THEN "Err" ELSE "Ok",
                           reminder.id, saved, <<>>)
    /\ due_reminders' = Tail(due_reminders)
    /\ scan_pc' = IF due_reminders' = <<>> THEN "waiting" ELSE "processing"
    /\ UNCHANGED <<now, probe, result, rwlock, tasks>>

\* notification_service: one iteration of `for reminder in due_reminders`:
\* the reminder is printed, then rescheduled or marked as sent.  A panic in
\* calculate_next_occurrence ends the spawned task: the rest of the list is
\* dropped and no tick comes any more, while the handlers go on.
ScannerProcess(write_ok) ==
    /\ scan_pc = "processing"
    /\ due_reminders # <<>>
    /\ LET reminder == Head(due_reminders)
           next_time == CalculateNextOccurrence(reminder, now)
           found == FindIndex(reminders, reminder.id) # 0
           saved == found /\ write_ok
       IN  IF next_time.panic
           THEN /\ lastOp' = Op("deliver", "Panic", reminder.id, FALSE, <<>>)
                /\ due_reminders' = <<>>
                /\ scan_pc' = "dead"
                /\ UNCHANGED <<reminders, disk>>
           ELSE /\ reminders' = IF next_time.some
                                THEN RescheduleReminder(reminders, reminder.id, next_time.v)
                                ELSE MarkAsSent(reminders, reminder.id)
                /\ disk' = IF found THEN SaveToDisk(reminders', write_ok, disk) ELSE disk
                /\ lastOp' = Op("deliver", IF found /\ ~write_ok THEN "Err" ELSE "Ok",
                                reminder.id, saved, <<>>)
                /\ due_reminders' = Tail(due_reminders)
                /\ scan_pc' = IF due_reminders' = <<>> THEN "waiting" ELSE "processing"
    /\ UNCHANGED <<now, probe, result, rwlock, tasks>>

\* Time passes.
AdvanceClock(t) ==
    /\ t > now
    /\ now' = t
    /\ lastOp' = Op("clock", "", 0, FALSE, <<>>)
    /\ UNCHANGED <<reminders, disk, scan_pc, due_reminders, probe, result, rwlock, tasks>>

\* main: ReminderStorage::new() with no reminders.json yet, the notification
\* service spawned and waiting for its first tick.
Init ==
    /\ reminders = <<>>
    /\ disk = NoFile
    /\ now = 0
    /\ scan_pc = "waiting"
    /\ due_reminders = <<>>
    /\ lastOp = Op("init", "", 0, FALSE, <<>>)
    /\ probe = IdleProbe
    /\ result = IdleResult
    /\ rwlock = NoGuards
    /\ tasks = IdleTasks

Next ==
    \/ \E payload \in Payloads, write_ok \in BOOLEAN : CreateReminder(payload, write_ok)
    \/ GetReminders
    \/ ScannerTick
    \/ \E write_ok \in BOOLEAN : ScannerProcess(write_ok)
    \/ \E t \in Instants : AdvanceClock(t)

Spec == Init /\ [][Next]_vars

(***************************************************************************)
(* The service started on an existing reminders.json, killed and started   *)
(* again                                                                   *)
(***************************************************************************)
StrHourly == <<"h","o","u","r","l","y">>

\* Recurrence values of the reminders of an existing file: none, a keyword,
\* and values calculate_next_occurrence gives no interval for: a count that
\* is not positive, one that does not parse, and no known form.
LoadedRecurrences ==
    {NoneStr, SomeStr(StrDaily), SomeStr(<<"0">>),
     SomeStr(<<"x">> \o StrMinutes), SomeStr(StrHourly)}

\* The collections an existing file holds: ids in the order of creation.
LoadedCollections ==
    UNION {{[i \in 1..n |->
                NewReminder(i, <<"h","i">>, 0, NoneStr, recs[i], 0)] :
                    recs \in [1..n -> LoadedRecurrences]} : n \in 1..MaxLoaded}

SnapshotFiles ==
    {NoFile} \cup {[exists |-> TRUE, data |-> ToJson(rs)] : rs \in LoadedCollections}

\* The process is killed between two steps and main runs again:
\* ReminderStorage::new reads the file, the notification service is spawned.
Restart ==
    /\ reminders' = LoadFromDisk(disk)
    /\ scan_pc' = "waiting"
    /\ due_reminders' = <<>>
    /\ lastOp' = Op("restart", "", 0, FALSE, <<>>)
    /\ UNCHANGED <<disk, now, probe, result, rwlock, tasks>>

\* The notification service has printed the reminder at the head of its
\* list; the process is killed before reschedule_reminder or mark_as_sent
\* writes, and main runs again.
CrashAfterDelivery ==
    /\ scan_pc = "processing"
    /\ due_reminders # <<>>
    /\ reminders' = LoadFromDisk(disk)
    /\ scan_pc' = "waiting"
    /\ due_reminders' = <<>>
    /\ lastOp' = Op("crash_after_delivery", "", Head(due_reminders).id, FALSE,
                    <<Head(due_reminders)>>)
    /\ UNCHANGED <<disk, now, probe, result, rwlock, tasks>>

InitRestart ==
    /\ disk \in SnapshotFiles
    /\ reminders = LoadFromDisk(disk)
    /\ now = 0
    /\ scan_pc = "waiting"
    /\ due_reminders = <<>>
    /\ lastOp = Op("init", "", 0, FALSE, <<>>)
    /\ probe = IdleProbe
    /\ result = IdleResult
    /\ rwlock = NoGuards
    /\ tasks = IdleTasks

NextRestart ==
    \/ \E payload \in Payloads, write_ok \in BOOLEAN : CreateReminder(payload, write_ok)
    \/ GetReminders
    \/ ScannerTick
    \/ \E write_ok \in BOOLEAN : ScannerProcess(write_ok)
    \/ \E t \in Instants : AdvanceClock(t)
    \/ Restart
    \/ CrashAfterDelivery

SpecRestart == InitRestart /\ [][NextRestart]_vars

(***************************************************************************)
(* The service with room for several reminders: requests that arrive while *)
(* the notification service works through the list of a tick               *)
(***************************************************************************)
ConcurrentPayloads ==
    {p \in ValidPayloads : p.recurrence \in {NoneStr, SomeStr(StrDaily)}}

NextConcurrent ==
    \/ \E payload \in ConcurrentPayloads, write_ok \in BOOLEAN :
            CreateReminderUpTo(MaxConcurrent, payload, write_ok)
    \/ ScannerTick
    \/ \E write_ok \in BOOLEAN : ScannerProcess(write_ok)
    \/ \E t \in Instants : AdvanceClock(t)

SpecConcurrent == Init /\ [][NextConcurrent]_vars

\* The notification service is a task of its own that loops on
\* interval.tick(): whenever a tick can find something due it comes, and a
\* list being worked through is worked through to its end.  Requests and the
\* clock are under no such obligation.
LivePayloads == {p \in ConcurrentPayloads : p.due_time.instant = 0}

NextLive ==
    \/ \E payload \in LivePayloads, write_ok \in BOOLEAN :
            CreateReminderUpTo(MaxConcurrent, payload, write_ok)
    \/ ScannerTick
    \/ \E write_ok \in BOOLEAN : ScannerProcess(write_ok)
    \/ \E t \in Instants : AdvanceClock(t)

SpecLive ==
    /\ Init
    /\ [][NextLive]_vars
    /\ WF_vars(ScannerTick)
    /\ WF_vars(\E write_ok \in BOOLEAN : ScannerProcess(write_ok))

(***************************************************************************)
(* The service given minute counts near the ends of the ranges of i64, of  *)
(* Duration and of DateTime<Utc>                                           *)
(***************************************************************************)
\* i64::MAX; one more than i64::MAX, which does not parse; the largest count
\* Duration::minutes takes, with the suffix, and one more than it; and an
\* everyday count.
LargeCounts ==
    {I64MaxDigits,
     I64MinDigits,
     MaxDurationMinutes \o StrMinutes,
     BigAdd(MaxDurationMinutes, <<"1">>),
     Str60Minutes}

OverflowPayloads ==
    [message : {<<"h","i">>},
     due_time : {[wellformed |-> TRUE, instant |-> t] : t \in DueInstants},
     username : Usernames,
     recurrence : {SomeStr(c) : c \in LargeCounts}]

NextOverflow ==
    \/ \E payload \in OverflowPayloads, write_ok \in BOOLEAN :
            CreateReminderUpTo(MaxReminders, payload, write_ok)
    \/ GetReminders
    \/ ScannerTick
    \/ \E write_ok \in BOOLEAN : ScannerProcess(write_ok)
    \/ \E t \in Instants : AdvanceClock(t)

SpecOverflow == Init /\ [][NextOverflow]_vars

(***************************************************************************)
(* The store on its own: storage.rs called by any caller, in any order     *)
(***************************************************************************)
StoreTimes == 0..MaxStoreTime
StoreDueTimes == 0..(MaxStoreTime + 1)
StoreIds == 1..MaxStored
StoreWrites == {TRUE}

StoreAdd(due_time, write_ok) ==
    /\ Len(reminders) < MaxStored
    /\ LET reminder == NewReminder(NewId(reminders), <<"h","i">>, due_time,
                                   NoneStr, NoneStr, now)
       IN  /\ reminders' = AddReminder(reminders, reminder)
           /\ disk' = SaveToDisk(reminders', write_ok, disk)
           /\ lastOp' = Op("add", IF write_ok THEN "Ok" ELSE "Err",
                           reminder.id, write_ok, <<>>)
    /\ UNCHANGED <<now, scan_pc, due_reminders, probe, result, rwlock, tasks>>

StoreMarkAsSent(id, write_ok) ==
    /\ LET found == FindIndex(reminders, id) # 0
       IN  /\ reminders' = MarkAsSent(reminders, id)
           /\ disk' = IF found THEN SaveToDisk(reminders', write_ok, disk) ELSE disk
           /\ lastOp' = Op("mark_as_sent",
                           IF found /\ ~write_ok THEN "Err" ELSE "Ok",
                           id, found /\ write_ok, <<>>)
    /\ UNCHANGED <<now, scan_pc, due_reminders, probe, result, rwlock, tasks>>

StoreReschedule(id, next_due_time, write_ok) ==
    /\ LET found == FindIndex(reminders, id) # 0
       IN  /\ reminders' = RescheduleReminder(reminders, id, next_due_time)
           /\ disk' = IF found THEN SaveToDisk(reminders', write_ok, disk) ELSE disk
           /\ lastOp' = Op("reschedule",
                           IF found /\ ~write_ok THEN "Err" ELSE "Ok",
                           id, found /\ write_ok, <<next_due_time>>)
    /\ UNCHANGED <<now, scan_pc, due_reminders, probe, result, rwlock, tasks>>

\* Faulty variant: the stored Vec itself is sorted, not a clone of it.
StoreGetUpcomingSortsStore ==
    /\ reminders' = SortByDueTime(reminders)
    /\ lastOp' = Op("get_upcoming", "Ok", 0, FALSE, GetUpcomingReminders(reminders, now))
    /\ UNCHANGED <<disk, now, scan_pc, due_reminders, probe, result, rwlock, tasks>>

StoreGetUpcoming ==
    /\ lastOp' = Op("get_upcoming", "Ok", 0, FALSE, GetUpcomingReminders(reminders, now))
    /\ UNCHANGED <<reminders, disk, now, scan_pc, due_reminders, probe, result, rwlock, tasks>>

StoreGetDue ==
    /\ lastOp' = Op("get_due", "Ok", 0, FALSE, GetDueReminders(reminders, now))
    /\ UNCHANGED <<reminders, disk, now, scan_pc, due_reminders, probe, result, rwlock, tasks>>

StoreGetAll ==
    /\ lastOp' = Op("get_all", "Ok", 0, FALSE, GetAllReminders(reminders))
    /\ UNCHANGED <<reminders, disk, now, scan_pc, due_reminders, probe, result, rwlock, tasks>>

\* The process is stopped and started again on the file the store wrote.
StoreRestart ==
    /\ reminders' = LoadFromDisk(disk)
    /\ lastOp' = Op("restart", "", 0, FALSE, <<>>)
    /\ UNCHANGED <<disk, now, scan_pc, due_reminders, probe, result, rwlock, tasks>>

NextStore ==
    \/ \E due_time \in StoreDueTimes, write_ok \in StoreWrites : StoreAdd(due_time, write_ok)
    \/ \E id \in StoreIds, write_ok \in StoreWrites : StoreMarkAsSent(id, write_ok)
    \/ \E id \in StoreIds, t \in StoreDueTimes, write_ok \in StoreWrites :
            StoreReschedule(id, t, write_ok)
    \/ StoreGetUpcoming
    \/ StoreGetDue
    \/ StoreGetAll
    \/ \E t \in StoreTimes : AdvanceClock(t)
    \/ StoreRestart

SpecStore == Init /\ [][NextStore]_vars

(***************************************************************************)
(* The store called by concurrent tasks: every operation takes its guard   *)
(* with self.reminders.read().await or .write().await and holds it until   *)
(* it returns                                                              *)
(***************************************************************************)
TaskIds == 1..MaxTasks
ScannerTask == 1

\* Faulty variant: every operation takes a read guard.
LockModeAllRead(op) == "read"

\* The guard each operation of the store takes.
LockMode(op) ==
    IF op \in {"add", "mark_as_sent", "reschedule"} THEN "write" ELSE "read"

\* The calls each task makes: the notification service, the request handlers.
OpsOf(k) ==
    IF k = ScannerTask THEN {"get_due", "mark_as_sent", "reschedule"}
    ELSE {"add", "get_upcoming", "get_all"}

LockedIds == 1..MaxLocked
LockedDueTimes == {0, 1}

\* tokio::sync::RwLock: a read guard is given while no write guard is out, a
\* write guard while no guard at all is out.
CanRead(l) == l.writer = 0
CanWrite(l) == l.writer = 0 /\ l.readers = {}

\* The guard of task k is dropped.
DropGuard(l, k) ==
    [writer |-> IF l.writer = k THEN 0 ELSE l.writer, readers |-> l.readers \ {k}]

\* The task is out of the store with what its call returned.
Returned(op, ret) == [pc |-> "idle", op |-> "none", id |-> 0, t |-> 0, ret |-> ret]

\* The first line of an operation: the task gets its guard.
LockedAcquire(k, op, id, t) ==
    /\ tasks[k].pc = "idle"
    /\ op \in OpsOf(k)
    /\ id \in (IF op \in {"mark_as_sent", "reschedule"} THEN LockedIds ELSE {0})
    /\ t \in (IF op \in {"add", "reschedule"} THEN LockedDueTimes ELSE {0})
    /\ op = "add" => Len(reminders) < MaxLocked
    /\ IF LockMode(op) = "write"
       THEN /\ CanWrite(rwlock)
            /\ rwlock' = [rwlock EXCEPT !.writer = k]
       ELSE /\ CanRead(rwlock)
            /\ rwlock' = [rwlock EXCEPT !.readers = @ \cup {k}]
    /\ tasks' = [tasks EXCEPT ![k] = [pc |-> "in", op |-> op, id |-> id, t |-> t,
                                      ret |-> "none"]]
    /\ UNCHANGED <<reminders, disk, now, scan_pc, due_reminders, lastOp, probe, result>>

\* add_reminder, mark_as_sent, reschedule_reminder up to save_to_disk: the
\* push, or the find and the assignments; with no match the call returns.
LockedMutate(k) ==
    /\ tasks[k].pc = "in"
    /\ tasks[k].op \in {"add", "mark_as_sent", "reschedule"}
    /\ LET call == tasks[k]
           found == call.op = "add" \/ FindIndex(reminders, call.id) # 0
           new_id == NewId(reminders)
       IN  /\ reminders' =
                IF call.op = "add"
                THEN AddReminder(reminders,
                        NewReminder(new_id, <<"h","i">>, call.t, NoneStr, NoneStr, now))
                ELSE IF call.op = "mark_as_sent" THEN MarkAsSent(reminders, call.id)
                ELSE RescheduleReminder(reminders, call.id, call.t)
           /\ IF found
              THEN /\ tasks' = [tasks EXCEPT ![k].pc = "mutated",
                                             ![k].id = IF call.op = "add" THEN new_id ELSE @]
                   /\ UNCHANGED <<rwlock, lastOp>>
              ELSE /\ tasks' = [tasks EXCEPT ![k] = Returned(call.op, "Ok")]
                   /\ rwlock' = DropGuard(rwlock, k)
                   /\ lastOp' = Op(call.op, "Ok", call.id, FALSE, <<>>)
    /\ UNCHANGED <<disk, now, scan_pc, due_reminders, probe, result>>

\* self.save_to_disk(&reminders)? and the return: the guard is dropped.
LockedSaveReturn(k, write_ok) ==
    /\ tasks[k].pc = "mutated"
    /\ disk' = SaveToDisk(reminders, write_ok, disk)
    /\ tasks' = [tasks EXCEPT ![k] = Returned(tasks[k].op,
                                              IF write_ok THEN "Ok" ELSE "Err")]
    /\ rwlock' = DropGuard(rwlock, k)
    /\ lastOp' = Op(tasks[k].op, IF write_ok THEN "Ok" ELSE "Err", tasks[k].id,
                    write_ok, <<>>)
    /\ UNCHANGED <<reminders, now, scan_pc, due_reminders, probe, result>>

\* get_due_reminders, get_upcoming_reminders, get_all_reminders after the
\* guard: the Vec is read and the clones are returned.
LockedReadReturn(k) ==
    /\ tasks[k].pc = "in"
    /\ tasks[k].op \in {"get_due", "get_upcoming", "get_all"}
    /\ tasks' = [tasks EXCEPT ![k] = Returned(tasks[k].op, "Ok")]
    /\ rwlock' = DropGuard(rwlock, k)
    /\ lastOp' = Op(tasks[k].op, "Ok", 0, FALSE,
                    IF tasks[k].op = "get_due" THEN GetDueReminders(reminders, now)
                    ELSE IF tasks[k].op = "get_upcoming"
                    THEN GetUpcomingReminders(reminders, now)
                    ELSE GetAllReminders(reminders))
    /\ UNCHANGED <<reminders, disk, now, scan_pc, due_reminders, probe, result>>

NextLocked ==
    \/ \E k \in TaskIds :
          \E op \in OpsOf(k), id \in LockedIds \cup {0}, t \in LockedDueTimes :
              LockedAcquire(k, op, id, t)
    \/ \E k \in TaskIds : LockedMutate(k)
    \/ \E k \in TaskIds, write_ok \in BOOLEAN : LockedSaveReturn(k, write_ok)
    \/ \E k \in TaskIds : LockedReadReturn(k)

SpecLocked == Init /\ [][NextLocked]_vars

(***************************************************************************)
(* The recurrence check of create_reminder and calculate_next_occurrence   *)
(* applied to one recurrence value, due time and clock reading             *)
(***************************************************************************)
ProbeMinutes == (0..MaxProbeMinutes) \cup {5, 60}

\* [space] [sign] [digits] [space] [suffix] [space]
ProbeNumerals == {<<>>} \cup {ToDigits(n) : n \in ProbeMinutes}
ProbeSuffixes ==
    {<<>>, StrMinutes, <<"M","I","N","U","T","E","S">>,
     <<"M","i","n","u","t","e","s">>, StrMinutes \o StrMinutes,
     <<"m","i","n","u","t","e">>}
ProbeShaped ==
    {lead \o sign \o num \o gap \o suffix \o trail :
        lead \in {<<>>, <<" ">>}, sign \in {<<>>, <<"-">>, <<"+">>},
        num \in ProbeNumerals, gap \in {<<>>, <<" ">>},
        suffix \in ProbeSuffixes, trail \in {<<>>, <<" ">>}}
ProbeKeywords ==
    {StrDaily, <<"D","a","i","l","y">>, <<"D","A","I","L","Y">>,
     StrWeekly, <<"W","E","E","K","L","Y">>, <<"w","e","e","k","L","y">>}
ProbeOthers ==
    {<<" ">> \o StrDaily, StrWeekly \o <<" ">>, StrDaily \o StrMinutes,
     <<"h","o","u","r","l","y">>, <<"1",".","5">>, <<"1"," ","2">>}
ProbeHours ==
    {Str60Minutes, <<"6","0">>, <<"6","0"," ">> \o StrMinutes,
     <<"6","0"," ">> \o <<"M","I","N","U","T","E","S">>}

ProbeDues == 0..MaxProbeDue
ProbeNows == 0..MaxProbeNow
ProbeDayNows ==
    {h * HalfDay + o : h \in 1..(2 * MaxProbeDays), o \in {0, 1}}
ProbeWeekNows ==
    {w * MinutesPerWeek + o : w \in 1..MaxProbeWeeks, o \in {0 - 1, 0}}

ProbeInputs ==
    [recurrence : {NoneStr}
                    \cup {SomeStr(x) : x \in ProbeShaped \cup ProbeKeywords \cup ProbeOthers},
     due_time : ProbeDues, now : ProbeNows]
    \cup [recurrence : {SomeStr(x) : x \in ProbeHours \cup ProbeKeywords},
          due_time : ProbeDues, now : ProbeDayNows]
    \cup [recurrence : {SomeStr(x) : x \in ProbeKeywords},
          due_time : ProbeDues, now : ProbeWeekNows]

ProbeReminder ==
    NewReminder(1, <<"h","i">>, probe.due_time, NoneStr, probe.recurrence, 0)

\* create_reminder's recurrence check on probe.recurrence
ProbeValidate ==
    /\ result.validated = "pending"
    /\ result' = [result EXCEPT !.validated = ValidateRecurrence(probe.recurrence)]
    /\ UNCHANGED <<reminders, disk, now, scan_pc, due_reminders, lastOp, probe, rwlock, tasks>>

\* calculate_next_occurrence on a reminder with probe's recurrence and due
\* time, with Utc::now() reading probe.now
ProbeCalculate ==
    /\ ~result.calculated
    /\ result' = [result EXCEPT !.calculated = TRUE,
                                !.next = CalculateNextOccurrence(ProbeReminder, probe.now)]
    /\ UNCHANGED <<reminders, disk, now, scan_pc, due_reminders, lastOp, probe, rwlock, tasks>>

InitRecurrence ==
    /\ reminders = <<>>
    /\ disk = NoFile
    /\ now = 0
    /\ scan_pc = "waiting"
    /\ due_reminders = <<>>
    /\ lastOp = Op("init", "", 0, FALSE, <<>>)
    /\ probe \in ProbeInputs
    /\ result = IdleResult
    /\ rwlock = NoGuards
    /\ tasks = IdleTasks

NextRecurrence == ProbeValidate \/ ProbeCalculate

SpecRecurrence == InitRecurrence /\ [][NextRecurrence]_vars

(***************************************************************************)
(* What the specification says of a recurrence value                       *)
(***************************************************************************)
Join3(a, b, c) == a \o b \o c

\* A decimal numeral of a positive integer, with or without a plus sign.
IsPositiveNumeral(s) ==
    LET body == IF s # <<>> /\ Head(s) = "+" THEN Tail(s) ELSE s
    IN  /\ body # <<>>
        /\ \A i \in 1..Len(body) : body[i] \in {"0","1","2","3","4","5","6","7","8","9"}
        /\ \E i \in 1..Len(body) : body[i] # "0"

AllWhitespace(s) == \A i \in 1..Len(s) : s[i] \in {" ", "\t", "\n", "\r"}

\* whitespace, a positive numeral, whitespace
IsPaddedPositiveNumeral(s) ==
    \E i \in 1..Len(s), j \in 1..Len(s) :
        /\ i <= j
        /\ AllWhitespace(SubSeq(s, 1, i - 1))
        /\ IsPositiveNumeral(SubSeq(s, i, j))
        /\ AllWhitespace(SubSeq(s, j + 1, Len(s)))

\* daily, weekly, a positive bare integer, or a positive integer (whitespace
\* around it tolerated) followed by "minutes" in any letter case
AcceptedShape(s) ==
    \/ ToLowercase(s) \in {StrDaily, StrWeekly}
    \/ IsPositiveNumeral(s)
    \/ /\ Len(s) > 7
       /\ ToLowercase(SubSeq(s, Len(s) - 6, Len(s))) = StrMinutes
       /\ IsPaddedPositiveNumeral(SubSeq(s, 1, Len(s) - 7))

\* The interval, in minutes, the specification gives a recurrence value of
\* the forms daily, weekly, N, N minutes, Nminutes; 0 for any other value.
SpecInterval(s) ==
    IF ToLowercase(s) = StrDaily THEN 24 * 60
    ELSE IF ToLowercase(s) = StrWeekly THEN 7 * 24 * 60
    ELSE IF \E n \in ProbeMinutes \ {0} :
                s \in {ToDigits(n), ToDigits(n) \o StrMinutes,
                       Join3(ToDigits(n), <<" ">>, StrMinutes)}
    THEN CHOOSE n \in ProbeMinutes \ {0} :
                s \in {ToDigits(n), ToDigits(n) \o StrMinutes,
                       Join3(ToDigits(n), <<" ">>, StrMinutes)}
    ELSE 0

\* t is due + k * interval for the smallest positive integer k that makes it
\* strictly greater than now_
IsFirstAfter(t, due, interval, now_) ==
    /\ t > due
    /\ (t - due) % interval = 0
    /\ t > now_
    /\ t - interval = due \/ t - interval <= now_

(***************************************************************************)
(* Claims on the recurrence check and the recurrence math                  *)
(***************************************************************************)
Rejected == {"not_positive", "invalid_format"}

\* C2: for a recurrence daily, weekly or N minutes (N > 0) and any clock
\* reading, calculate_next_occurrence returns due_time + k * interval for the
\* smallest positive k that makes it strictly greater than now, the interval
\* being 24h, 7 * 24h or N minutes; it returns none when recurrence is absent.
C2_NextOccurrenceIsFirstAfterNow ==
    result.calculated =>
        /\ ~probe.recurrence.some => result.next = NoneTime
        /\ (probe.recurrence.some /\ SpecInterval(probe.recurrence.v) > 0) =>
                /\ result.next.some
                /\ IsFirstAfter(result.next.v, probe.due_time,
                                SpecInterval(probe.recurrence.v), probe.now)

\* A daily reminder two intervals behind the clock gets due_time + 2 days.
C2_Witness ==
    /\ result.calculated
    /\ probe.recurrence = SomeStr(StrDaily)
    /\ probe.due_time + 24 * 60 <= probe.now
    /\ result.next = SomeTime(probe.due_time + 2 * 24 * 60)

\* C7: create accepts a present recurrence value exactly when it is daily or
\* weekly, a positive bare integer, or a positive integer followed by
\* "minutes" in any letter case, whitespace around the number tolerated.
C7_AcceptsExactlyTheShapes ==
    (result.validated # "pending" /\ probe.recurrence.some) =>
        (result.validated = "ok" <=> AcceptedShape(probe.recurrence.v))

\* C8: "0" and "-5 minutes" are rejected at ingestion; "60minutes" is
\* accepted and its next occurrence is that of a 60-minute interval.
C8_Boundaries ==
    (result.validated # "pending" /\ result.calculated) =>
        /\ probe.recurrence = SomeStr(<<"0">>) => result.validated \in Rejected
        /\ probe.recurrence = SomeStr(<<"-","5"," ">> \o StrMinutes)
                => result.validated \in Rejected
        /\ probe.recurrence = SomeStr(<<"6","0">> \o StrMinutes) =>
                /\ result.validated = "ok"
                /\ result.next.some
                /\ IsFirstAfter(result.next.v, probe.due_time, 60, probe.now)

\* "60minutes" accepted, some hours behind the clock, moved past it.
C8_Witness ==
    /\ result.validated = "ok"
    /\ result.calculated
    /\ probe.recurrence = SomeStr(<<"6","0">> \o StrMinutes)
    /\ probe.due_time + 2 * 60 <= probe.now
    /\ result.next.some
    /\ result.next.v > probe.now

UpcomingContract(resp, rs, t) ==
    /\ \A i \in 1..Len(resp) :
            /\ ~resp[i].sent
            /\ resp[i].due_time > t
            /\ \E j \in 1..Len(rs) : rs[j] = resp[i]
    /\ \A j \in 1..Len(rs) :
            (~rs[j].sent /\ rs[j].due_time > t) => \E i \in 1..Len(resp) : resp[i] = rs[j]
    /\ Len(resp) = Cardinality({j \in 1..Len(rs) : ~rs[j].sent /\ rs[j].due_time > t})
    /\ \A i \in 1..(Len(resp) - 1) : resp[i].due_time <= resp[i + 1].due_time

DueContract(resp, rs, t) ==
    /\ \A i \in 1..Len(resp) :
            /\ ~resp[i].sent
            /\ resp[i].due_time <= t
            /\ \E j \in 1..Len(rs) : rs[j] = resp[i]
    /\ \A j \in 1..Len(rs) :
            (~rs[j].sent /\ rs[j].due_time <= t) => \E i \in 1..Len(resp) : resp[i] = rs[j]
    /\ Len(resp) = Cardinality({j \in 1..Len(rs) : ~rs[j].sent /\ rs[j].due_time <= t})

\* C3: in every store state and for every now, get_upcoming returns exactly
\* the reminders with sent == false and due_time > now, ascending by due_time.
C3_UpcomingExactAndSorted ==
    /\ \A t \in StoreTimes \cup StoreDueTimes :
            UpcomingContract(GetUpcomingReminders(reminders, t), reminders, t)
    /\ lastOp.op = "get_upcoming" => UpcomingContract(lastOp.resp, reminders, now)

\* Two upcoming reminders returned in the reverse of the order they were added.
C3_Witness ==
    /\ lastOp.op = "get_upcoming"
    /\ Len(lastOp.resp) = 2
    /\ lastOp.resp[1].id > lastOp.resp[2].id
    /\ lastOp.resp[1].due_time < lastOp.resp[2].due_time

\* C4: in every store state and for every now, get_due returns exactly the
\* reminders with sent == false and due_time <= now; due_time == now is due.
C4_DueExact ==
    /\ \A t \in StoreTimes \cup StoreDueTimes :
            DueContract(GetDueReminders(reminders, t), reminders, t)
    /\ lastOp.op = "get_due" => DueContract(lastOp.resp, reminders, now)

\* A reminder due exactly now is returned, another stored one is not.
C4_Witness ==
    /\ lastOp.op = "get_due"
    /\ Len(reminders) = 2
    /\ Len(lastOp.resp) = 1
    /\ lastOp.resp[1].due_time = now

(***************************************************************************)
(* Claims on the service: create_reminder and the notification service     *)
(***************************************************************************)
InList(list, id) == \E i \in 1..Len(list) : list[i].id = id

\* The step is one iteration of the scanner's for loop, on Head(due_reminders).
ScanStep ==
    /\ scan_pc = "processing"
    /\ due_reminders # <<>>
    /\ due_reminders' = Tail(due_reminders)
    /\ lastOp'.op = "deliver"

NeverListed(rs, id) ==
    \A t \in Instants :
        /\ ~InList(GetDueReminders(rs, t), id)
        /\ ~InList(GetUpcomingReminders(rs, t), id)

\* C1: a reminder with no recurrence that the scanner found due and delivered
\* has sent == true after that iteration, and from then on stays sent and is
\* returned neither by get_due nor by get_upcoming, whatever the clock reads.
C1_OneShotSentForGood ==
    [][ /\ (ScanStep /\ ~Head(due_reminders).recurrence.some) =>
              /\ Head(due_reminders).due_time <= now
              /\ \E i \in 1..Len(reminders') :
                    /\ reminders'[i].id = Head(due_reminders).id
                    /\ reminders'[i].sent
              /\ NeverListed(reminders', Head(due_reminders).id)
        /\ \A i \in 1..Len(reminders) :
              (reminders[i].sent /\ ~reminders[i].recurrence.some) =>
                  /\ i <= Len(reminders')
                  /\ reminders'[i].id = reminders[i].id
                  /\ reminders'[i].sent
                  /\ NeverListed(reminders', reminders[i].id)
      ]_vars

\* A one-shot reminder was delivered and is sent.
C1_Witness ==
    /\ lastOp.op = "deliver"
    /\ \E i \in 1..Len(reminders) :
            /\ reminders[i].id = lastOp.id
            /\ ~reminders[i].recurrence.some
            /\ reminders[i].sent
            /\ reminders[i].due_time <= now

C6_CatchUpSkipsMissed ==
    [][ (ScanStep /\ Head(due_reminders).recurrence.some) =>
            LET r == Head(due_reminders)
                interval == SpecInterval(r.recurrence.v)
            IN  /\ interval > 0
                /\ \E i \in 1..Len(reminders') :
                      /\ reminders'[i].id = r.id
                      /\ ~reminders'[i].sent
                      /\ IsFirstAfter(reminders'[i].due_time, r.due_time, interval, now)
                      /\ (r.recurrence.v = StrDaily /\ now - r.due_time = 36 * 60) =>
                            reminders'[i].due_time = r.due_time + 2 * 24 * 60
                /\ ~InList(due_reminders', r.id)
                /\ ~InList(GetDueReminders(reminders', now), r.id)
      ]_vars

\* A daily reminder created 36 hours after its due time, after one scan.
C6_Witness ==
    /\ lastOp.op = "deliver"
    /\ \E i \in 1..Len(reminders) :
            /\ reminders[i].id = lastOp.id
            /\ reminders[i].recurrence = SomeStr(StrDaily)
            /\ reminders[i].created_at = now
            /\ now = 36 * 60
            /\ reminders[i].due_time = 2 * 24 * 60
            /\ ~reminders[i].sent

\* A request the specification calls invalid: an unparseable due_time, a
\* message blank after trimming, or a recurrence the check rejects.
InvalidRequest(payload) ==
    \/ ~payload.due_time.wellformed
    \/ AllWhitespace(payload.message)
    \/ ValidateRecurrence(payload.recurrence) \in Rejected

InvalidPayloads == {payload \in Payloads : InvalidRequest(payload)}

\* C9: a create that fails validation returns the error and leaves the store
\* as it was: nothing is appended and no snapshot is written.  Every create
\* is either such a rejection, or it returns no validation error and its
\* request was not an invalid one.
C9_RejectedCreateLeavesStore ==
    [][ lastOp'.op = "create" =>
            \/ /\ lastOp'.status = "BAD_REQUEST"
               /\ reminders' = reminders
               /\ disk' = disk
               /\ ~lastOp'.wrote
            \/ /\ lastOp'.status # "BAD_REQUEST"
               /\ \A payload \in InvalidPayloads, write_ok \in BOOLEAN :
                      ~CreateReminder(payload, write_ok)
      ]_vars

\* A create was rejected while the store held a reminder and a snapshot.
C9_Witness ==
    /\ lastOp.op = "create"
    /\ lastOp.status = "BAD_REQUEST"
    /\ reminders # <<>>
    /\ disk.exists

C15_AbsentIdIsNoop ==
    [][ (lastOp'.op \in {"mark_as_sent", "reschedule"}
            /\ ~InList(reminders, lastOp'.id)) =>
            /\ lastOp'.status = "Ok"
            /\ reminders' = reminders
            /\ disk' = disk
            /\ ~lastOp'.wrote
      ]_vars

\* reschedule_reminder was called with an id the store, not empty, has not.
C15_Witness ==
    /\ lastOp.op = "reschedule"
    /\ lastOp.status = "Ok"
    /\ reminders # <<>>
    /\ ~InList(reminders, lastOp.id)
    /\ disk.exists
    /\ disk.data = ToJson(reminders)

UniqueIds(rs) ==
    \A i \in 1..Len(rs), j \in 1..Len(rs) : i # j => rs[i].id # rs[j].id

\* C18: no two stored reminders share an id, after any adds and in a store
\* loaded from the file; mark_as_sent and reschedule_reminder change at most
\* one reminder.
C18_IdsAreUnique ==
    [][ /\ UniqueIds(reminders)
        /\ UniqueIds(reminders')
        /\ lastOp'.op \in {"mark_as_sent", "reschedule"} =>
              /\ Len(reminders') = Len(reminders)
              /\ Cardinality({i \in 1..Len(reminders) : reminders'[i] # reminders[i]}) <= 1
      ]_vars

\* Two reminders were added and the store was loaded from the file.
C18_Witness ==
    /\ lastOp.op = "restart"
    /\ Len(reminders) = 2
    /\ reminders[1].id # reminders[2].id

(***************************************************************************)
(* Claims on the store under concurrent callers                            *)
(***************************************************************************)
\* The same reminders: the same ids with the same value of every field.
SameReminders(a, b) ==
    /\ Len(a) = Len(b)
    /\ \A i \in 1..Len(a) :
            /\ a[i].id = b[i].id
            /\ a[i].message = b[i].message
            /\ a[i].due_time = b[i].due_time
            /\ a[i].username = b[i].username
            /\ a[i].sent = b[i].sent
            /\ a[i].created_at = b[i].created_at
            /\ a[i].recurrence = b[i].recurrence

WriteOps == {"add", "mark_as_sent", "reschedule"}
ReadOps == {"get_due", "get_upcoming", "get_all"}

\* Task k is between the line that takes its guard and its return.
InCriticalSection(k) == tasks[k].pc \in {"in", "mutated"}

SnapshotIsMemory(file, rs) == file.exists /\ file.data = ToJson(rs)
InSync(file, rs) == SameReminders(LoadFromDisk(file), rs)

\* C13: whatever the interleaving of the tasks, when a write operation
\* returns Ok after its save the file is the snapshot of the whole collection
\* in memory at that moment, mutations of earlier failed saves included; and
\* memory and file come apart only by the mutation of a write operation that
\* has yet to save.
C13_SuccessfulWriteSyncsDisk ==
    [][ /\ (\E k \in TaskIds :
                /\ tasks[k].pc = "mutated"
                /\ tasks'[k].pc = "idle"
                /\ tasks'[k].ret = "Ok") =>
              /\ SnapshotIsMemory(disk', reminders')
              /\ InSync(disk', reminders')
        /\ (InSync(disk, reminders) /\ ~InSync(disk', reminders')) =>
              \E k \in TaskIds :
                /\ tasks[k].pc = "in"
                /\ tasks[k].op \in WriteOps
                /\ tasks'[k].pc = "mutated"
      ]_vars

\* mark_as_sent has just written a snapshot that holds a reminder whose add
\* had returned the error to its caller.
C13_Witness ==
    /\ lastOp.op = "mark_as_sent"
    /\ lastOp.wrote
    /\ \E k \in TaskIds : k # ScannerTask /\ tasks[k].ret = "Err"
    /\ reminders # <<>>
    /\ reminders[1].sent
    /\ SnapshotIsMemory(disk, reminders)

\* C16: while a task is in the critical section of add, mark_as_sent or
\* reschedule_reminder (the save included) no other task is in the critical
\* section of any operation; while only reads are in theirs, a task that is
\* outside can enter a read.
C16_SingleWriterMultiReader ==
    /\ \A k \in TaskIds :
            (InCriticalSection(k) /\ tasks[k].op \in WriteOps) =>
                \A j \in TaskIds \ {k} : ~InCriticalSection(j)
    /\ (\A k \in TaskIds : InCriticalSection(k) => tasks[k].op \in ReadOps) =>
            \A j \in TaskIds :
                tasks[j].pc = "idle" =>
                    \E op \in ReadOps : ENABLED LockedAcquire(j, op, 0, 0)

\* The notification service is in get_due_reminders while a request handler
\* is in get_upcoming_reminders.
C16_Witness ==
    /\ InCriticalSection(ScannerTask)
    /\ tasks[ScannerTask].op = "get_due"
    /\ \E k \in TaskIds \ {ScannerTask} :
            /\ InCriticalSection(k)
            /\ tasks[k].op = "get_upcoming"

(***************************************************************************)
(* Claims on the snapshot, failed writes and restarts                      *)
(***************************************************************************)
\* C12: for every reachable collection, saving it as a snapshot and building
\* a store from that snapshot gives the same reminders; the file a successful
\* write has just left loads to the collection in memory.
C12_SnapshotRoundTrip ==
    /\ SameReminders(LoadFromDisk(SaveToDisk(reminders, TRUE, disk)), reminders)
    /\ lastOp.wrote => SameReminders(LoadFromDisk(disk), reminders)

\* A snapshot was just written of a sent one-shot reminder and a recurring
\* one whose due time has moved.
C12_Witness ==
    /\ lastOp.op = "deliver"
    /\ lastOp.wrote
    /\ \E i \in 1..Len(reminders) : reminders[i].sent
    /\ \E i \in 1..Len(reminders) :
            reminders[i].recurrence.some /\ reminders[i].due_time > 0

\* C14: when the snapshot write of an add fails, the caller gets the error
\* and the reminder is in memory all the same: get_all returns it, get_due
\* or get_upcoming returns it according to its due_time, and no step takes a
\* stored reminder out of memory.
C14_FailedAddStaysInMemory ==
    [][ /\ (lastOp'.op = "create" /\ lastOp'.status = "INTERNAL_SERVER_ERROR") =>
              /\ Len(reminders') = Len(reminders) + 1
              /\ SubSeq(reminders', 1, Len(reminders)) = reminders
              /\ reminders'[Len(reminders')].id = lastOp'.id
              /\ InList(GetAllReminders(reminders'), lastOp'.id)
              /\ \A t \in Instants :
                    IF reminders'[Len(reminders')].due_time <= t
                    THEN InList(GetDueReminders(reminders', t), lastOp'.id)
                    ELSE InList(GetUpcomingReminders(reminders', t), lastOp'.id)
        /\ \A i \in 1..Len(reminders) :
              /\ i <= Len(reminders')
              /\ reminders'[i].id = reminders[i].id
      ]_vars

\* GET /reminders returns a reminder that no file holds.
C14_Witness ==
    /\ lastOp.op = "list"
    /\ Len(lastOp.resp) = 1
    /\ ~disk.exists

OnDisk(file, id) ==
    /\ file.exists
    /\ \E i \in 1..Len(file.data) : file.data[i].id = id

\* C17 as stated: whenever the process is killed after the scanner has
\* printed a due reminder and before mark_as_sent or reschedule_reminder has
\* written, the reminder is due in the store the restart builds.
C17_CrashRedelivers ==
    [][ lastOp'.op = "crash_after_delivery" =>
            InList(GetDueReminders(reminders', now'), lastOp'.id)
      ]_vars

\* C17, amended: the same for a reminder that reminders.json holds at the
\* time of the crash: it is due in the store the restart builds, and the
\* next tick puts it in the list the scanner delivers.
C17_CrashRedeliversPersisted ==
    [][ /\ (lastOp'.op = "crash_after_delivery" /\ OnDisk(disk, lastOp'.id)) =>
              /\ InList(GetDueReminders(reminders', now'), lastOp'.id)
              /\ \A t \in Instants :
                    t >= now' => InList(GetDueReminders(reminders', t), lastOp'.id)
        /\ (lastOp.op = "crash_after_delivery" /\ OnDisk(disk, lastOp.id)
                /\ lastOp'.op = "tick") =>
              /\ scan_pc' = "processing"
              /\ InList(due_reminders', lastOp.id)
      ]_vars

\* The process was killed after a delivery; the restarted store holds the
\* delivered reminder, as it was delivered, and it is due.
C17_Witness ==
    /\ lastOp.op = "crash_after_delivery"
    /\ OnDisk(disk, lastOp.id)
    /\ \E i \in 1..Len(reminders) : reminders[i] = lastOp.resp[1]
    /\ InList(GetDueReminders(reminders, now), lastOp.id)

\* C19: a failed reschedule or mark_as_sent does not end the tick or the
\* scanner: the iteration ends as any other, the scanner then takes the next
\* reminder of the list, and waits for the next tick when the list is done.
C19_FailureDoesNotStopScanner ==
    [][ /\ (scan_pc = "processing" /\ lastOp'.op = "deliver" /\ lastOp'.status = "Err") =>
              /\ due_reminders' = Tail(due_reminders)
              /\ scan_pc' = IF Tail(due_reminders) = <<>> THEN "waiting" ELSE "processing"
        /\ (lastOp.op = "deliver" /\ lastOp.status = "Err") =>
              IF due_reminders # <<>>
              THEN /\ scan_pc = "processing"
                   /\ ScanStep =>
                        /\ lastOp'.id = Head(due_reminders).id
                        /\ \E i \in 1..Len(reminders') :
                              /\ reminders'[i].id = Head(due_reminders).id
                              /\ \/ reminders'[i].sent
                                 \/ reminders'[i].due_time > now
              ELSE /\ scan_pc = "waiting"
                   /\ lastOp'.op = "tick" =>
                        due_reminders' = GetDueReminders(reminders, now)
      ]_vars

\* Both reminders of a tick were marked as sent in memory although the write
\* failed for the first and for the second.
C19_Witness ==
    /\ lastOp.op = "deliver"
    /\ lastOp.status = "Err"
    /\ lastOp.id = 2
    /\ Len(reminders) = 2
    /\ reminders[1].sent
    /\ reminders[2].sent
    /\ disk.exists
    /\ ~disk.data[1].sent
    /\ ~disk.data[2].sent

\* A stored recurrence the specification gives no positive interval for.
InvalidStoredRecurrence(recurrence) ==
    /\ recurrence.some
    /\ recurrence.v \in {<<"0">>, <<"x">> \o StrMinutes, StrHourly}

\* C20: a due reminder whose stored recurrence has a non-positive or
\* unparseable interval is not rescheduled: the iteration marks it as sent
\* with its due_time as it was, it is then in no list, and it stays sent as
\* long as the process runs.
C20_InvalidRecurrenceMarkedSent ==
    [][ /\ (ScanStep /\ InvalidStoredRecurrence(Head(due_reminders).recurrence)) =>
              /\ \E i \in 1..Len(reminders') :
                    /\ reminders'[i].id = Head(due_reminders).id
                    /\ reminders'[i].sent
                    /\ reminders'[i].due_time = Head(due_reminders).due_time
              /\ NeverListed(reminders', Head(due_reminders).id)
        /\ lastOp'.op \notin {"restart", "crash_after_delivery"} =>
              \A i \in 1..Len(reminders) :
                  (reminders[i].sent /\ InvalidStoredRecurrence(reminders[i].recurrence)) =>
                      /\ i <= Len(reminders')
                      /\ reminders'[i].id = reminders[i].id
                      /\ reminders'[i].sent
      ]_vars

\* A reminder with recurrence "0" was delivered and is sent, not moved.
C20_Witness ==
    /\ lastOp.op = "deliver"
    /\ \E i \in 1..Len(reminders) :
            /\ reminders[i].id = lastOp.id
            /\ reminders[i].recurrence = SomeStr(<<"0">>)
            /\ reminders[i].sent
            /\ reminders[i].due_time = 0

(***************************************************************************)
(* C21: when the write inside mark_as_sent or reschedule_reminder fails,   *)
(* the call returns an error and the change stays in memory: the one-shot  *)
(* reminder is sent, the recurring one has its new due_time, and           *)
(* get_due_reminders no longer lists it.  No step of the running process   *)
(* takes a reminder back to an earlier occurrence: sent stays set and      *)
(* due_time never decreases, so the Scanner does not deliver the           *)
(* occurrence again.                                                       *)
(***************************************************************************)
C21_FailedWriteKeepsMemoryChange ==
    [][/\ (scan_pc = "processing" /\ lastOp'.op = "deliver" /\ lastOp'.status = "Err") =>
            LET before == Head(due_reminders)
                i == FindIndex(reminders', before.id)
            IN  /\ i # 0
                /\ IF before.recurrence.some
                   THEN /\ ~reminders'[i].sent
                        /\ reminders'[i].due_time > now
                        /\ reminders'[i].due_time > before.due_time
                   ELSE reminders'[i].sent
                /\ ~InList(GetDueReminders(reminders', now'), before.id)
       /\ Len(reminders') >= Len(reminders)
       /\ \A i \in 1..Len(reminders) :
            /\ reminders'[i].id = reminders[i].id
            /\ reminders[i].sent => reminders'[i].sent
            /\ reminders'[i].due_time >= reminders[i].due_time]_vars

\* The write of mark_as_sent has failed: the reminder is sent in memory and
\* unsent in the file, and a later tick has found nothing due.
C21_Witness ==
    /\ lastOp.op = "tick"
    /\ due_reminders = <<>>
    /\ Len(reminders) = 1
    /\ reminders[1].sent
    /\ reminders[1].due_time <= now
    /\ disk.exists
    /\ Len(FromJson(disk.data)) = 1
    /\ ~FromJson(disk.data)[1].sent

C23_AppendOnly ==
    [][/\ Len(reminders') >= Len(reminders)
       /\ \A i \in 1..Len(reminders) : reminders'[i].id = reminders[i].id
       /\ (lastOp'.op = "create" /\ lastOp'.status # "BAD_REQUEST") =>
            /\ Len(reminders') = Len(reminders) + 1
            /\ SubSeq(reminders', 1, Len(reminders)) = reminders
            /\ reminders'[Len(reminders')].id = lastOp'.id
       /\ lastOp'.op # "create" => Len(reminders') = Len(reminders)]_vars

\* A reminder has been added after one that was delivered and marked as sent.
C23_Witness ==
    /\ lastOp.op = "create"
    /\ lastOp.status = "CREATED"
    /\ Len(reminders) = 2
    /\ reminders[1].sent
    /\ reminders[1].id # lastOp.id
    /\ reminders[2].id = lastOp.id
    /\ ~reminders[2].sent

(***************************************************************************)
(* C24: get_upcoming_reminders, get_due_reminders and get_all_reminders    *)
(* only read: the reminders in memory and the file are after the call what *)
(* they were before it, and nothing is written.                            *)
(***************************************************************************)
C24_ReadsChangeNothing ==
    [][lastOp'.op \in {"get_upcoming", "get_due", "get_all"} =>
            /\ reminders' = reminders
            /\ disk' = disk
            /\ ~lastOp'.wrote]_vars

\* get_upcoming_reminders has answered with two reminders in the order of
\* their due times, which is not the order they are stored in.
C24_Witness ==
    /\ lastOp.op = "get_upcoming"
    /\ Len(reminders) = 2
    /\ Len(lastOp.resp) = 2
    /\ reminders[1].due_time > reminders[2].due_time
    /\ lastOp.resp = <<reminders[2], reminders[1]>>
    /\ disk.exists
    /\ disk.data = ToJson(reminders)

(***************************************************************************)
(* C25: at every clock reading each stored reminder is in exactly one of   *)
(* three classes: sent; listed by get_due_reminders; listed by             *)
(* get_upcoming_reminders.  The two lists have no reminder in common and   *)
(* together hold exactly the unsent reminders.                             *)
(***************************************************************************)
C25_SentDueUpcomingPartition ==
    \A t \in (0 - 1)..(MaxStoreTime + 2) :
        LET due == GetDueReminders(reminders, t)
            upcoming == GetUpcomingReminders(reminders, t)
        IN  /\ \A i \in 1..Len(reminders) :
                    LET r == reminders[i]
                    IN  /\ r.sent \/ InList(due, r.id) \/ InList(upcoming, r.id)
                        /\ ~(r.sent /\ InList(due, r.id))
                        /\ ~(r.sent /\ InList(upcoming, r.id))
                        /\ ~(InList(due, r.id) /\ InList(upcoming, r.id))
            /\ Len(due) + Len(upcoming)
                    = Cardinality({i \in 1..Len(reminders) : ~reminders[i].sent})
            /\ \A k \in 1..Len(due) : \E i \in 1..Len(reminders) : reminders[i] = due[k]
            /\ \A k \in 1..Len(upcoming) :
                    \E i \in 1..Len(reminders) : reminders[i] = upcoming[k]

\* Two reminders with the same due_time, now reached: the sent one is in
\* neither list, the other has just been listed by get_due_reminders.
C25_Witness ==
    /\ lastOp.op = "get_due"
    /\ Len(reminders) = 2
    /\ reminders[1].due_time = reminders[2].due_time
    /\ reminders[1].due_time <= now
    /\ reminders[1].sent
    /\ ~reminders[2].sent
    /\ lastOp.resp = <<reminders[2]>>
    /\ GetUpcomingReminders(reminders, now) = <<>>

(***************************************************************************)
(* C26: with the notification service ticking, a stored unsent reminder    *)
(* whose due_time has come is eventually delivered, whatever requests      *)
(* arrive meanwhile: the service prints it and leaves it sent or moved to  *)
(* a later due_time.  For a recurring reminder this holds again for each   *)
(* due_time it is rescheduled to, once the clock has reached it.           *)
(***************************************************************************)
Pending(id) ==
    \E i \in 1..Len(reminders) :
        /\ reminders[i].id = id
        /\ ~reminders[i].sent
        /\ reminders[i].due_time <= now

Delivered(id) ==
    /\ lastOp.op = "deliver"
    /\ lastOp.id = id
    /\ \E i \in 1..Len(reminders) :
            /\ reminders[i].id = id
            /\ reminders[i].sent \/ reminders[i].due_time > now

C26_DueIsEventuallyDelivered ==
    \A id \in 1..MaxConcurrent : Pending(id) ~> Delivered(id)

\* A daily reminder has been delivered for the second time, at a later clock
\* reading, after another reminder was added to the store.
C26_Witness ==
    /\ Len(reminders) = 2
    /\ lastOp.op = "deliver"
    /\ lastOp.id = reminders[1].id
    /\ reminders[1].recurrence = SomeStr(StrDaily)
    /\ reminders[1].due_time >= 2 * MinutesPerDay
    /\ Delivered(reminders[1].id)

(***************************************************************************)
(* C27: a reminder added after the get_due_reminders of a tick and before  *)
(* the tick's last mark_as_sent or reschedule_reminder is neither lost nor *)
(* altered.  The add leaves the list of the tick as it is; each step of    *)
(* the tick changes only the reminder it took from that list, which was    *)
(* found due, keeps every other reminder as it was, and when its write     *)
(* succeeds the file holds the whole collection, the added reminder        *)
(* included, unsent and with its due_time.                                 *)
(***************************************************************************)
C27_InterleavedAddSurvivesTick ==
    [][/\ (scan_pc = "processing" /\ lastOp'.op = "create"
                /\ lastOp'.status # "BAD_REQUEST") =>
            /\ due_reminders' = due_reminders
            /\ scan_pc' = scan_pc
            /\ Len(reminders') = Len(reminders) + 1
            /\ ~reminders'[Len(reminders')].sent
            /\ ~InList(due_reminders', reminders'[Len(reminders')].id)
            /\ lastOp'.wrote =>
                    /\ disk'.exists
                    /\ FromJson(disk'.data) = reminders'
       /\ (scan_pc = "processing" /\ lastOp'.op = "deliver") =>
            /\ Len(reminders') = Len(reminders)
            /\ \A i \in 1..Len(reminders) :
                    reminders[i].id # Head(due_reminders).id =>
                        reminders'[i] = reminders[i]
            /\ lastOp'.id = Head(due_reminders).id
            /\ due_reminders' = Tail(due_reminders)
            /\ lastOp'.wrote =>
                    /\ disk'.exists
                    /\ FromJson(disk'.data) = reminders'
       /\ lastOp'.op = "tick" =>
            \A k \in 1..Len(due_reminders') :
                \E i \in 1..Len(reminders) :
                    /\ reminders[i] = due_reminders'[k]
                    /\ IsDue(reminders[i], now)
       /\ lastOp'.op \notin {"tick", "deliver"} => due_reminders' = due_reminders]_vars

\* The tick has ended with a successful write.  The second reminder is due
\* and unsent with the due_time it was created with: it was added after the
\* tick had taken its list, and memory and file hold it.
C27_Witness ==
    /\ scan_pc = "waiting"
    /\ lastOp.op = "deliver"
    /\ lastOp.wrote
    /\ Len(reminders) = 2
    /\ lastOp.id = reminders[1].id
    /\ reminders[1].sent
    /\ ~reminders[2].sent
    /\ reminders[2].due_time = 0
    /\ reminders[2].created_at = now
    /\ disk.exists
    /\ FromJson(disk.data) = reminders

(***************************************************************************)
(* C28: the due_time of a recurring reminder never decreases, and every    *)
(* change of it adds a whole number of intervals: starting from the        *)
(* due_time the reminder was created with, it is always that due_time plus *)
(* a non-negative multiple of the interval.                                *)
(***************************************************************************)
C28_RecurringDueTimeOnGrid ==
    [][/\ \A i \in 1..Len(reminders) :
            LET interval ==
                    IF reminders[i].recurrence.some
                    THEN RecurrenceInterval(reminders[i].recurrence.v)
                    ELSE NoneTime
                step == reminders'[i].due_time - reminders[i].due_time
            IN  /\ i <= Len(reminders')
                /\ step >= 0
                /\ IF interval.some THEN step % interval.v = 0 ELSE step = 0
       /\ (lastOp'.op = "create" /\ lastOp'.status # "BAD_REQUEST") =>
            /\ Len(reminders') = Len(reminders) + 1
            /\ reminders'[Len(reminders')].due_time \in DueInstants]_vars

\* A reminder recurring every 60 minutes, created due at 0, has been
\* delivered 36 hours later: its due_time is 37 intervals after 0.
C28_Witness ==
    /\ lastOp.op = "deliver"
    /\ Len(reminders) = 1
    /\ reminders[1].recurrence = SomeStr(Str60Minutes)
    /\ reminders[1].created_at = 0
    /\ now = 3 * HalfDay
    /\ reminders[1].due_time = 37 * 60

(***************************************************************************)
(* C29: for every positive minute count the ingestion check accepts and    *)
(* every due_time, the conversion of the count to an interval and the      *)
(* addition of the interval to the due_time stay in range: when the        *)
(* notification service processes the reminder, calculate_next_occurrence  *)
(* returns a next occurrence and the service goes on.                      *)
(***************************************************************************)
C29_AcceptedCountNeverOverflows ==
    [][(scan_pc = "processing" /\ lastOp'.op = "deliver"
            /\ Head(due_reminders).recurrence.some
            /\ ValidateRecurrence(Head(due_reminders).recurrence) = "ok") =>
            /\ CalculateNextOccurrence(Head(due_reminders), now).some
            /\ lastOp'.status # "Panic"
            /\ scan_pc' # "dead"]_vars

====
